---- MODULE Spec2Model ----
(***************************************************************************)
(* The floor-navigation state machine of rpg-tui.                          *)
(*                                                                         *)
(* Two programs of the repository are modelled, told apart by the          *)
(* variable crate:                                                         *)
(*   "rpg"  src/src/main.rs      rooms with border walls, random sizes     *)
(*   "tui"  src/tui/src/main.rs  the earlier wall-less, fixed-size room    *)
(*                                                                         *)
(* A Map is a record [width, height, tiles] whose tiles field is a         *)
(* function from the stored Positions (the HashMap's keys) to tile kinds.  *)
(* Every call of the random number generator is a nondeterministic choice  *)
(* over the values it can return, and HashMap iteration order is a         *)
(* nondeterministic choice over the stored keys.                           *)
(***************************************************************************)
EXTENDS Integers, Sequences, FiniteSets, TLC

VARIABLES
    crate,              \* which program runs: "rpg" or "tui"
    floor,              \* Game.floor (0-based index into maps)
    maps,               \* Game.maps, a sequence: maps[d + 1] is the floor at depth d
    character_position, \* Game.character_position
    panicked,           \* TRUE once the program has aborted (expect / overflow / index)
    last,               \* history: what the last call looked at, [tile, from]
    trail,              \* history: the last two floor changes, each [kind, from]
    arrival,            \* history: arrival[d] is where the player first entered depth d
    deepest,            \* history: the deepest depth the player has been on
    view,               \* the arguments of a to_world_coords call
    world,              \* the value that call returned
    gen                 \* a floor under generation: Map::new and its retry loops

vars == <<crate, floor, maps, character_position, panicked, last, trail, arrival,
          deepest, view, world, gen>>

(***************************************************************************)
(* Bounds of the model.  The room sizes of the programs (20..100 x 10..50  *)
(* and 80 x 20) are scaled down; the smallest room keeps two interior      *)
(* cells, so that, as in the programs, a floor always has a free cell for  *)
(* each ladder and for the player.                                         *)
(***************************************************************************)
MIN_WIDTH == 4
MAX_WIDTH == 4
MIN_HEIGHT == 3
MAX_HEIGHT == 4
WIDTH == 2
HEIGHT == 2
\* Moves that would create a floor beyond this many floors are not taken.
MaxFloors == 3

\* The largest view length and the largest map length of a to_world_coords call.
MaxView == 7

MaxLength == 7

\* u16 arithmetic: 2^16
U16 == 65536
\* The result of an arithmetic operation that overflowed and aborted.
Overflow == -1

Tiles == {"Wall", "Ground", "Character", "LadderUp", "LadderDown", "Empty"}

Position(x, y) == [x |-> x, y |-> y]

\* The positions the two gen_range calls of a random position can produce.
Cells(width, height) == {Position(x, y) : x \in 0..(width - 1), y \in 0..(height - 1)}

\* u16 subtraction and addition: on overflow a debug build aborts and a
\* release build wraps; the set holds every outcome.
u16_sub(a, b) == IF a >= b THEN {a - b} ELSE {Overflow, a - b + U16}

u16_add(a, b) == IF a + b < U16 THEN {a + b} ELSE {Overflow, a + b - U16}

(***************************************************************************)
(* Map, src/src/main.rs                                                    *)
(***************************************************************************)
tile_at(map, position) ==
    IF position \in DOMAIN map.tiles THEN map.tiles[position] ELSE "Empty"

\* The positions find_tile can return; the empty set stands for None.
find_tile(map, expected) == {pos \in DOMAIN map.tiles : map.tiles[pos] = expected}

\* HashMap::insert: overwrites any tile stored at pos.
insert(map, pos, tile) ==
    [map EXCEPT !.tiles = [p \in (DOMAIN map.tiles) \cup {pos} |->
                              IF p = pos THEN tile ELSE map.tiles[p]]]

\* As random_unocuppied_position, without the test of the tile.
random_position_unchecked(map) == Cells(map.width, map.height)

\* Only a position without a tile is accepted, not one holding Ground.
random_position_untiled(map) ==
    {pos \in Cells(map.width, map.height) : pos \notin DOMAIN map.tiles}

\* The positions the retry loop can return.
random_unocuppied_position(map) ==
    {pos \in Cells(map.width, map.height) :
        pos \notin DOMAIN map.tiles \/ map.tiles[pos] = "Ground"}

\* As Room, comparing y with height instead of height - 1.
Room_open_below(width, height) ==
    [width |-> width, height |-> height,
     tiles |-> [p \in Cells(width, height) |->
                  IF p.x = 0 \/ p.x = width - 1 \/ p.y = 0 \/ p.y = height
                  THEN "Wall" ELSE "Ground"]]

\* The rectangular room: walls along the borders, ground inside.
Room(width, height) ==
    [width |-> width, height |-> height,
     tiles |-> [p \in Cells(width, height) |->
                  IF p.x = 0 \/ p.x = width - 1 \/ p.y = 0 \/ p.y = height - 1
                  THEN "Wall" ELSE "Ground"]]

\* The down ladder placed on any cell of the floor, border included.
WithLadderDown_on_any_cell(m) ==
    {insert(m, pos, "LadderDown") : pos \in Cells(m.width, m.height)}

\* The maps with a down ladder placed on m.
WithLadderDown(m) == {insert(m, pos, "LadderDown") : pos \in random_unocuppied_position(m)}

\* As WithLadderUp, placing the ladder on any cell that is not a wall.
WithLadderUp_overwriting(m, depth) ==
    IF depth > 0
    THEN {insert(m, pos, "LadderUp") :
            pos \in {c \in Cells(m.width, m.height) : tile_at(m, c) # "Wall"}}
    ELSE {m}

\* The up ladder left out of the floor right below the first one.
WithLadderUp_below_second(m, depth) ==
    IF depth > 1
    THEN {insert(m, pos, "LadderUp") : pos \in random_unocuppied_position(m)}
    ELSE {m}

\* An up ladder placed on the first floor too.
WithLadderUp_on_every_floor(m, depth) ==
    {insert(m, pos, "LadderUp") : pos \in random_unocuppied_position(m)}

\* The maps with an up ladder placed on m, when the floor is not the first.
WithLadderUp(m, depth) ==
    IF depth > 0
    THEN {insert(m, pos, "LadderUp") : pos \in random_unocuppied_position(m)}
    ELSE {m}

\* Every map Map::new(depth) can return.
Map_new(depth) ==
    UNION {UNION {WithLadderUp(m, depth) : m \in WithLadderDown(Room(width, height))} :
             width \in MIN_WIDTH..MAX_WIDTH, height \in MIN_HEIGHT..MAX_HEIGHT}

(***************************************************************************)
(* Game, src/src/main.rs.  A game value is a record                        *)
(* [floor, maps, character_position, panicked].                            *)
(***************************************************************************)
Game == [floor |-> floor, maps |-> maps,
         character_position |-> character_position, panicked |-> panicked]

Aborted(g) == [g EXCEPT !.panicked = TRUE]

\* Game::map; indexing past the end of maps aborts, which the callers test.
Game_map(g) == g.maps[g.floor + 1]

Game_new ==
    UNION {{[floor |-> 0, maps |-> <<first_map>>,
             character_position |-> pos, panicked |-> FALSE] :
               pos \in random_unocuppied_position(first_map)} :
             first_map \in Map_new(0)}

\* As Descend, pushing a new map on every descent.
Descend_always_push(g) ==
    LET f == g.floor + 1
        grown == {Append(g.maps, m) : m \in Map_new(f)}
    IN UNION {{[floor |-> f, maps |-> ms, character_position |-> pos,
                panicked |-> FALSE] : pos \in find_tile(ms[f + 1], "LadderUp")} :
                ms \in grown}

\* As Descend, generating the floor again when it has been visited before.
Descend_regenerating(g) ==
    LET f == g.floor + 1
        grown == IF f = Len(g.maps)
                 THEN {Append(g.maps, m) : m \in Map_new(f)}
                 ELSE {[g.maps EXCEPT ![f + 1] = m] : m \in Map_new(f)}
    IN UNION {{[floor |-> f, maps |-> ms, character_position |-> pos,
                panicked |-> FALSE] : pos \in find_tile(ms[f + 1], "LadderUp")} :
                ms \in grown}

\* The LadderDown arm of move_to.
Descend(g) ==
    LET f == g.floor + 1
        grown == IF f = Len(g.maps)
                 THEN {Append(g.maps, m) : m \in Map_new(f)}
                 ELSE {g.maps}
    IN UNION {IF find_tile(ms[f + 1], "LadderUp") = {}
              THEN {Aborted(g)}
              ELSE {[floor |-> f, maps |-> ms, character_position |-> pos,
                     panicked |-> FALSE] : pos \in find_tile(ms[f + 1], "LadderUp")} :
                ms \in grown}

\* As Ascend, leaving the character where it stood.
Ascend_keeps_position(g) ==
    IF g.floor = 0 THEN {Aborted(g)} ELSE {[g EXCEPT !.floor = g.floor - 1]}

\* As Ascend, looking for the ladder that was taken instead of its pair.
Ascend_to_LadderUp(g) ==
    IF g.floor = 0 \/ find_tile(g.maps[g.floor], "LadderUp") = {}
    THEN {Aborted(g)}
    ELSE {[g EXCEPT !.floor = g.floor - 1, !.character_position = pos] :
            pos \in find_tile(g.maps[g.floor], "LadderUp")}

\* As Ascend, returning to the first floor.
Ascend_to_surface(g) ==
    IF g.floor = 0 \/ find_tile(g.maps[1], "LadderDown") = {}
    THEN {Aborted(g)}
    ELSE {[g EXCEPT !.floor = 0, !.character_position = pos] :
            pos \in find_tile(g.maps[1], "LadderDown")}

\* The floor the player leaves upwards is dropped from maps.
Ascend_forgetting(g) ==
    IF g.floor = 0 \/ find_tile(g.maps[g.floor], "LadderDown") = {}
    THEN {Aborted(g)}
    ELSE {[g EXCEPT !.floor = g.floor - 1, !.character_position = pos,
                    !.maps = SubSeq(g.maps, 1, g.floor)] :
            pos \in find_tile(g.maps[g.floor], "LadderDown")}

\* The LadderUp arm of move_to: floor - 1 on the first floor overflows, and
\* the wrapped index is past the end of maps, so every build aborts.
Ascend(g) ==
    IF g.floor = 0 \/ find_tile(g.maps[g.floor], "LadderDown") = {}
    THEN {Aborted(g)}
    ELSE {[g EXCEPT !.floor = g.floor - 1, !.character_position = pos] :
            pos \in find_tile(g.maps[g.floor], "LadderDown")}

\* As move_to, without the Wall arm.
move_to_through_walls(g, dest_position) ==
    LET tile == tile_at(Game_map(g), dest_position)
    IN CASE tile = "LadderDown" -> Descend(g)
         [] tile = "LadderUp" -> Ascend(g)
         [] OTHER -> {[g EXCEPT !.character_position = dest_position]}

\* As move_to, the last arm leaving the position where it is.
move_to_keeps_position(g, dest_position) ==
    LET tile == tile_at(Game_map(g), dest_position)
    IN CASE tile = "LadderDown" -> Descend(g)
         [] tile = "LadderUp" -> Ascend(g)
         [] tile = "Wall" -> {g}
         [] OTHER -> {g}

\* Every game value move_to(dest_position) can leave.
move_to(g, dest_position) ==
    LET tile == tile_at(Game_map(g), dest_position)
    IN CASE tile = "LadderDown" -> Descend(g)
         [] tile = "LadderUp" -> Ascend(g)
         [] tile = "Wall" -> {g}
         [] OTHER -> {[g EXCEPT !.character_position = dest_position]}

(***************************************************************************)
(* Map and Game, src/tui/src/main.rs: no walls, only the ladders are       *)
(* stored, and the move methods clamp the position themselves.             *)
(***************************************************************************)
tui_find_tile(map, expected) == {pos \in DOMAIN map.tiles : map.tiles[pos] = expected}

\* The positions the retry loop can return: those that are not a key of tiles.
random_position(map) ==
    {pos \in Cells(map.width, map.height) : pos \notin DOMAIN map.tiles}

tui_Map_new(depth) ==
    LET empty == [width |-> WIDTH, height |-> HEIGHT, tiles |-> [p \in {} |-> "Empty"]]
        down == {insert(empty, pos, "LadderDown") : pos \in random_position(empty)}
    IN IF depth > 0
       THEN UNION {{insert(m, pos, "LadderUp") : pos \in random_position(m)} : m \in down}
       ELSE down

tui_Game_new ==
    UNION {{[floor |-> 0, maps |-> <<first_map>>,
             character_position |-> pos, panicked |-> FALSE] :
               pos \in random_position(first_map)} :
             first_map \in tui_Map_new(0)}

\* tiles.get(&character_position): "Empty" stands for None.
tui_tile(g) == tile_at(g.maps[g.floor + 1], g.character_position)

\* Every game value update_floor can leave.
update_floor(g) ==
    LET tile == tui_tile(g)
    IN CASE tile = "LadderUp" ->
              IF g.floor = 0 \/ tui_find_tile(g.maps[g.floor], "LadderDown") = {}
              THEN {Aborted(g)}
              ELSE {[g EXCEPT !.floor = g.floor - 1, !.character_position = pos] :
                      pos \in tui_find_tile(g.maps[g.floor], "LadderDown")}
         [] tile = "LadderDown" ->
              LET f == g.floor + 1
                  grown == IF f = Len(g.maps)
                           THEN {Append(g.maps, m) : m \in tui_Map_new(f)}
                           ELSE {g.maps}
              IN UNION {IF tui_find_tile(ms[f + 1], "LadderUp") = {}
                        THEN {Aborted(g)}
                        ELSE {[floor |-> f, maps |-> ms, character_position |-> pos,
                               panicked |-> FALSE] :
                                 pos \in tui_find_tile(ms[f + 1], "LadderUp")} :
                          ms \in grown}
         [] OTHER -> {g}

(***************************************************************************)
(* The renderer, src/src/main.rs.  An Option<u16> is its number when Some  *)
(* and None otherwise.                                                     *)
(***************************************************************************)
None == -2

\* u16::checked_sub
checked_sub(a, b) == IF a >= b THEN a - b ELSE None

\* b taken from every outcome of a: an aborted computation stays aborted.
then_sub(a, b) == UNION {IF s = Overflow THEN {Overflow} ELSE u16_sub(s, b) : s \in a}

\* The end edge tested with > for >=.
to_world_coords_late_end(view_x, player_x, view_width, map_width) ==
    IF map_width < view_width
    THEN {IF s = Overflow THEN Overflow ELSE checked_sub(s, view_width \div 2) :
            s \in u16_add(view_x, map_width \div 2)}
    ELSE IF player_x <= view_width \div 2
    THEN {view_x}
    ELSE IF player_x > map_width - view_width \div 2
    THEN then_sub(u16_add(view_x, map_width), view_width)
    ELSE then_sub(u16_add(view_x, player_x), view_width \div 2)

\* The scrolling branch without its centering term.
to_world_coords_uncentered(view_x, player_x, view_width, map_width) ==
    IF map_width < view_width
    THEN {IF s = Overflow THEN Overflow ELSE checked_sub(s, view_width \div 2) :
            s \in u16_add(view_x, map_width \div 2)}
    ELSE IF player_x <= view_width \div 2
    THEN {view_x}
    ELSE IF player_x >= map_width - view_width \div 2
    THEN then_sub(u16_add(view_x, map_width), view_width)
    ELSE u16_add(view_x, player_x)

\* The centered branch with a wrapping subtraction for the checked one.
to_world_coords_wrapping(view_x, player_x, view_width, map_width) ==
    IF map_width < view_width
    THEN {IF s = Overflow THEN Overflow ELSE (s - view_width \div 2) % U16 :
            s \in u16_add(view_x, map_width \div 2)}
    ELSE IF player_x <= view_width \div 2
    THEN {view_x}
    ELSE IF player_x >= map_width - view_width \div 2
    THEN then_sub(u16_add(view_x, map_width), view_width)
    ELSE then_sub(u16_add(view_x, player_x), view_width \div 2)

\* The end edge tested against the whole view length, not half of it.
to_world_coords_early_end(view_x, player_x, view_width, map_width) ==
    IF map_width < view_width
    THEN {IF s = Overflow THEN Overflow ELSE checked_sub(s, view_width \div 2) :
            s \in u16_add(view_x, map_width \div 2)}
    ELSE IF player_x <= view_width \div 2
    THEN {view_x}
    ELSE IF player_x >= map_width - view_width
    THEN then_sub(u16_add(view_x, map_width), view_width)
    ELSE then_sub(u16_add(view_x, player_x), view_width \div 2)

\* The start edge tested against the whole view length, not half of it.
to_world_coords_wide_start(view_x, player_x, view_width, map_width) ==
    IF map_width < view_width
    THEN {IF s = Overflow THEN Overflow ELSE checked_sub(s, view_width \div 2) :
            s \in u16_add(view_x, map_width \div 2)}
    ELSE IF player_x <= view_width
    THEN {view_x}
    ELSE IF player_x >= map_width - view_width \div 2
    THEN then_sub(u16_add(view_x, map_width), view_width)
    ELSE then_sub(u16_add(view_x, player_x), view_width \div 2)

\* Every outcome of to_world_coords: None, a coordinate, or Overflow.
to_world_coords(view_x, player_x, view_width, map_width) ==
    IF map_width < view_width
    THEN {IF s = Overflow THEN Overflow ELSE checked_sub(s, view_width \div 2) :
            s \in u16_add(view_x, map_width \div 2)}
    ELSE IF player_x <= view_width \div 2
    THEN {view_x}
    ELSE IF player_x >= map_width - view_width \div 2
    THEN then_sub(u16_add(view_x, map_width), view_width)
    ELSE then_sub(u16_add(view_x, player_x), view_width \div 2)

\* Display for Tile: the code point of the character a tile is shown as.
to_string(tile) ==
    CASE tile = "Wall" -> 35
      [] tile = "Ground" -> 46
      [] tile = "Character" -> 64
      [] tile = "LadderUp" -> 8593
      [] tile = "LadderDown" -> 8595
      [] tile = "Empty" -> 32

\* The stored tile looked up before the player's position is compared.
view_tile_stored_first(map, character, mx, my) ==
    IF mx = None \/ my = None
    THEN "Empty"
    ELSE IF tile_at(map, Position(mx, my)) # "Empty"
    THEN tile_at(map, Position(mx, my))
    ELSE IF Position(mx, my) = character
    THEN "Character"
    ELSE "Empty"

\* The tile the match of map_as_strings selects for world coordinates mx, my.
view_tile(map, character, mx, my) ==
    IF mx = None \/ my = None
    THEN "Empty"
    ELSE IF Position(mx, my) = character
    THEN "Character"
    ELSE tile_at(map, Position(mx, my))

\* The rows map_as_strings returns: rows[vy + 1][vx + 1] holds every outcome
\* for the view cell (vx, vy), a code point or Overflow.
map_as_strings(g, view_width, view_height) ==
    [vy1 \in 1..view_height |->
        [vx1 \in 1..view_width |->
            {IF mx = Overflow \/ my = Overflow
             THEN Overflow
             ELSE to_string(view_tile(Game_map(g), g.character_position, mx, my)) :
                mx \in to_world_coords(vx1 - 1, g.character_position.x,
                                       view_width, Game_map(g).width),
                my \in to_world_coords(vy1 - 1, g.character_position.y,
                                       view_height, Game_map(g).height)}]]

(***************************************************************************)
(* The destinations of the four moves.                                     *)
(***************************************************************************)
\* src/src/main.rs: unchecked u16 arithmetic on the coordinate.
up_dest == {Position(character_position.x, y) : y \in u16_sub(character_position.y, 1)}

down_dest == {Position(character_position.x, y) : y \in u16_add(character_position.y, 1)}

left_dest == {Position(x, character_position.y) : x \in u16_sub(character_position.x, 1)}

right_dest == {Position(x, character_position.y) : x \in u16_add(character_position.x, 1)}

\* src/tui/src/main.rs: the coordinate changes only inside the room.
tui_up_dest ==
    IF character_position.y > 0
    THEN Position(character_position.x, character_position.y - 1)
    ELSE character_position

tui_down_dest ==
    IF character_position.y < maps[floor + 1].height - 1
    THEN Position(character_position.x, character_position.y + 1)
    ELSE character_position

tui_left_dest ==
    IF character_position.x > 0
    THEN Position(character_position.x - 1, character_position.y)
    ELSE character_position

tui_right_dest ==
    IF character_position.x < maps[floor + 1].width - 1
    THEN Position(character_position.x + 1, character_position.y)
    ELSE character_position

(***************************************************************************)
(* The state machine.                                                      *)
(***************************************************************************)
\* The last two entries of a sequence.
Recent(s) == IF Len(s) > 2 THEN SubSeq(s, Len(s) - 1, Len(s)) ELSE s

\* The bound of the model: a call that finds `tile` at its destination may
\* run unless it would create a floor beyond MaxFloors.
Bounded(tile) ==
    (tile = "LadderDown" /\ floor + 1 = Len(maps)) => Len(maps) < MaxFloors

\* The call ends in game value r, having found `tile` at its destination.
Leave(r, tile) ==
    /\ floor' = r.floor
    /\ maps' = r.maps
    /\ character_position' = r.character_position
    /\ panicked' = r.panicked
    /\ last' = [tile |-> tile, from |-> floor]
    /\ trail' = IF r.floor = floor THEN trail
                ELSE Recent(Append(trail,
                        [kind |-> IF r.floor > floor THEN "descend" ELSE "ascend",
                         from |-> floor]))
    /\ arrival' = IF Len(r.maps) > Len(maps)
                  THEN Append(arrival, r.character_position)
                  ELSE arrival
    /\ deepest' = IF r.floor > deepest THEN r.floor ELSE deepest
    /\ UNCHANGED <<crate, view, world, gen>>

\* A move of src/src/main.rs towards one of dests.
Move(dests) ==
    /\ crate = "rpg"
    /\ ~panicked
    /\ \E dest_position \in dests :
          IF dest_position.x = Overflow \/ dest_position.y = Overflow
          THEN Leave(Aborted(Game), "Empty")
          ELSE /\ Bounded(tile_at(Game_map(Game), dest_position))
               /\ \E r \in move_to(Game, dest_position) :
                     Leave(r, tile_at(Game_map(Game), dest_position))

\* A move of src/tui/src/main.rs to dest, followed by update_floor.
tui_Move(dest) ==
    /\ crate = "tui"
    /\ ~panicked
    /\ LET g == [Game EXCEPT !.character_position = dest]
       IN /\ Bounded(tui_tile(g))
          /\ \E r \in update_floor(g) : Leave(r, tui_tile(g))

move_up == Move(up_dest)

move_down == Move(down_dest)

move_left == Move(left_dest)

move_right == Move(right_dest)

tui_move_up == tui_Move(tui_up_dest)

tui_move_down == tui_Move(tui_down_dest)

tui_move_left == tui_Move(tui_left_dest)

tui_move_right == tui_Move(tui_right_dest)

\* No to_world_coords call and no floor generation is being followed.
NoView == [view_x |-> 0, player_x |-> 0, view_width |-> 0, map_width |-> 0]

NoGen == [pc |-> "idle"]

Init ==
    /\ crate \in {"rpg", "tui"}
    /\ \E g \in (IF crate = "rpg" THEN Game_new ELSE tui_Game_new) :
          /\ floor = g.floor
          /\ maps = g.maps
          /\ character_position = g.character_position
          /\ panicked = g.panicked
    /\ last = [tile |-> "Empty", from |-> 0]
    /\ trail = <<>>
    /\ arrival = <<>>
    /\ deepest = 0
    /\ view = NoView
    /\ world = <<>>
    /\ gen = NoGen

Next ==
    \/ move_up
    \/ move_down
    \/ move_left
    \/ move_right
    \/ tui_move_up
    \/ tui_move_down
    \/ tui_move_left
    \/ tui_move_right

Spec == Init /\ [][Next]_vars

(***************************************************************************)
(* The coordinate mapper on its own: one call of to_world_coords with      *)
(* arguments the renderer can pass, a view coordinate within the view and  *)
(* a player coordinate within the map.                                     *)
(***************************************************************************)
\* No game is being played.
NoGame ==
    /\ floor = 0
    /\ maps = <<>>
    /\ character_position = Position(0, 0)
    /\ panicked = FALSE
    /\ last = [tile |-> "Empty", from |-> 0]
    /\ trail = <<>>
    /\ arrival = <<>>
    /\ deepest = 0

ViewInit ==
    /\ crate = "view"
    /\ NoGame
    /\ \E view_width \in 1..MaxView, map_width \in 1..MaxLength :
          \E view_x \in 0..(view_width - 1), player_x \in 0..(map_width - 1) :
             view = [view_x |-> view_x, player_x |-> player_x,
                     view_width |-> view_width, map_width |-> map_width]
    /\ world = <<>>
    /\ gen = NoGen

Convert ==
    /\ crate = "view"
    /\ world = <<>>
    /\ \E w \in to_world_coords(view.view_x, view.player_x,
                                  view.view_width, view.map_width) :
          world' = <<w>>
    /\ UNCHANGED <<crate, floor, maps, character_position, panicked, last, trail,
                   arrival, deepest, view, gen>>

ViewNext == Convert

SpecView == ViewInit /\ [][ViewNext]_vars

(***************************************************************************)
(* The generation of one floor of the walled program, one iteration of the *)
(* retry loop of random_unocuppied_position per step.  gen.pc names the    *)
(* call the loop runs for: "down" and "up" are the two calls of Map::new,  *)
(* "player" is the call of Game::new on the first floor.  gen.pos is the   *)
(* position the last iteration drew.                                       *)
(***************************************************************************)
GenInit ==
    /\ crate = "gen"
    /\ NoGame
    /\ view = NoView
    /\ world = <<>>
    /\ \E depth \in 0..1, width \in MIN_WIDTH..MAX_WIDTH, height \in MIN_HEIGHT..MAX_HEIGHT :
          gen = [pc |-> "down", depth |-> depth, map |-> Room(width, height),
                 pos |-> Position(0, 0), retried |-> FALSE]

\* One iteration of the loop, the two gen_range calls having drawn pos.
loop_iteration(pos) ==
    /\ crate = "gen"
    /\ gen.pc \in {"down", "up", "player"}
    /\ gen' = IF pos \in random_unocuppied_position(gen.map)
              THEN CASE gen.pc = "down" ->
                          [gen EXCEPT !.pos = pos,
                                      !.map = insert(gen.map, pos, "LadderDown"),
                                      !.pc = IF gen.depth > 0 THEN "up" ELSE "player"]
                     [] gen.pc = "up" ->
                          [gen EXCEPT !.pos = pos,
                                      !.map = insert(gen.map, pos, "LadderUp"),
                                      !.pc = "done"]
                     [] gen.pc = "player" ->
                          [gen EXCEPT !.pos = pos, !.pc = "done"]
              ELSE [gen EXCEPT !.pos = pos, !.retried = TRUE]
    /\ UNCHANGED <<crate, floor, maps, character_position, panicked, last, trail,
                   arrival, deepest, view, world>>

\* An iteration that draws an occupied position and goes round again.
Retry ==
    \E pos \in Cells(gen.map.width, gen.map.height) \ random_unocuppied_position(gen.map) :
       loop_iteration(pos)

\* An iteration that draws an unoccupied position and returns it.
Return == \E pos \in random_unocuppied_position(gen.map) : loop_iteration(pos)

GenNext == Retry \/ Return

\* The draws are independent and uniform over the cells of the floor: a
\* loop that can draw an unoccupied position does not avoid it for ever.
SpecGen == GenInit /\ [][GenNext]_vars /\ WF_vars(Return)

(***************************************************************************)
(* Properties.                                                             *)
(***************************************************************************)
\* The floor the player is on.
Current == maps[floor + 1]

IsBorder(m, p) == p.x = 0 \/ p.x = m.width - 1 \/ p.y = 0 \/ p.y = m.height - 1

\* C1: in every state of the walled program reached by moves, the player's
\* coordinates are inside the current floor (neither negative nor wrapped)
\* and the tile stored at the player's position is not Wall.
C1_NeverOnWall ==
    crate = "rpg" =>
        /\ character_position.x \in 0..(Current.width - 1)
        /\ character_position.y \in 0..(Current.height - 1)
        /\ tile_at(Current, character_position) # "Wall"

\* The player has gone down a floor and walked there.
C1_Witness == crate = "rpg" /\ floor = 1 /\ last.tile = "Ground" /\ last.from = 1

\* C2: a move whose destination holds LadderDown on floor d ends on floor
\* d + 1, appends one floor exactly when floor d + 1 did not exist before, and
\* leaves the player on the LadderUp cell of floor d + 1.
C2_DescentCompletes ==
    [][last'.tile = "LadderDown" =>
          /\ ~panicked'
          /\ floor' = floor + 1
          /\ Len(maps') = (IF Len(maps) = floor + 1 THEN Len(maps) + 1 ELSE Len(maps))
          /\ find_tile(maps'[floor' + 1], "LadderUp") = {character_position'}]_vars

\* The first descent of a game: from depth 0 with one floor to depth 1 with two.
C2_Witness ==
    /\ last = [tile |-> "LadderDown", from |-> 0]
    /\ trail = <<[kind |-> "descend", from |-> 0]>>
    /\ floor = 1
    /\ Len(maps) = 2

\* C3: a move whose destination holds LadderUp on floor d ends on floor d - 1
\* with the player on the LadderDown cell of that floor, and leaves the
\* sequence of floors as it was.
C3_AscentCompletes ==
    [][last'.tile = "LadderUp" =>
          /\ ~panicked'
          /\ floor' = floor - 1
          /\ maps' = maps
          /\ find_tile(maps[floor' + 1], "LadderDown") = {character_position'}]_vars

\* The player has climbed from depth 1 to depth 0.
C3_Witness == last = [tile |-> "LadderUp", from |-> 1] /\ floor = 0 /\ Len(maps) >= 2

\* C4: no move changes a floor that exists, and a descent to a floor visited
\* before lands on the cell of the first arrival there.
C4_FloorsStable ==
    [][/\ Len(maps') >= Len(maps)
       /\ \A d \in 1..Len(maps) : maps'[d] = maps[d]
       /\ (last'.tile = "LadderDown" /\ floor + 1 < Len(maps))
             => character_position' = arrival[floor + 1]]_vars

\* The player went down, came back up and has gone down again.
C4_Witness ==
    /\ last.tile = "LadderDown"
    /\ Len(trail) = 2
    /\ trail[1].kind = "ascend"
    /\ trail[2] = [kind |-> "descend", from |-> trail[1].from - 1]

\* C5: right after an ascent that follows a descent from depth d as the
\* previous floor change, the depth is d and the player is on floor d's
\* LadderDown cell; right after a descent that follows an ascent from depth d,
\* the depth is d and the player is on floor d's LadderUp cell.
C5_RoundTrip ==
    Len(trail) = 2 =>
        /\ (last.tile = "LadderUp" /\ trail[1].kind = "descend") =>
              /\ floor = trail[1].from
              /\ find_tile(Current, "LadderDown") = {character_position}
        /\ (last.tile = "LadderDown" /\ trail[1].kind = "ascend") =>
              /\ floor = trail[1].from
              /\ find_tile(Current, "LadderUp") = {character_position}

\* The player went down from depth 1 and has just come back up to it.
C5_Witness ==
    /\ last = [tile |-> "LadderUp", from |-> 2]
    /\ trail = <<[kind |-> "descend", from |-> 1], [kind |-> "ascend", from |-> 2]>>

\* C6: a move whose destination holds Wall changes neither the position nor
\* the depth nor the floors.
C6_WallNoOp ==
    [][last'.tile = "Wall" =>
          UNCHANGED <<floor, maps, character_position, panicked>>]_vars

\* A fresh game in which the player has just walked into a wall.
C6_Witness ==
    /\ crate = "rpg"
    /\ last = [tile |-> "Wall", from |-> 0]
    /\ Len(maps) = 1
    /\ trail = <<>>

\* C7: a move Up at y = 0, or Left at x = 0, changes neither the position nor
\* the depth nor the floors, and does not abort, in either program.
C7_EdgeNoOp ==
    [][(\/ character_position.y = 0 /\ (move_up \/ tui_move_up)
        \/ character_position.x = 0 /\ (move_left \/ tui_move_left))
          => UNCHANGED <<floor, maps, character_position, panicked>>]_vars

\* C8: no call changes the depth by more than one.
C8_OneFloorPerCall == floor \in {last.from - 1, last.from, last.from + 1}

Adjacent(p, q) ==
    \/ p.x = q.x /\ (p.y = q.y + 1 \/ q.y = p.y + 1)
    \/ p.y = q.y /\ (p.x = q.x + 1 \/ q.x = p.x + 1)

\* The player has come down a ladder that ends next to the ladder further
\* down, on a floor below which another floor exists.
C8_Witness ==
    /\ last.tile = "LadderDown"
    /\ floor = 1
    /\ Len(maps) = 3
    /\ \E p \in find_tile(Current, "LadderDown") : Adjacent(p, character_position)

\* The cells of a floor that hold a ladder.
Ladders(m) == find_tile(m, "LadderDown") \cup find_tile(m, "LadderUp")

\* C9: every floor holds exactly one LadderDown, exactly one LadderUp below
\* the first floor and none on it, and no ladder is on a cell that Map::new
\* fills with Wall (the border cells of the walled program; the wall-less
\* program stores no Wall).
C9_Ladders ==
    \A d \in 1..Len(maps) :
        /\ Cardinality(find_tile(maps[d], "LadderDown")) = 1
        /\ Cardinality(find_tile(maps[d], "LadderUp")) = (IF d > 1 THEN 1 ELSE 0)
        /\ Ladders(maps[d]) \subseteq Cells(maps[d].width, maps[d].height)
        /\ crate = "rpg" => \A p \in Ladders(maps[d]) : ~IsBorder(maps[d], p)
        /\ find_tile(maps[d], "Wall") \cap Ladders(maps[d]) = {}
        /\ crate = "tui" => find_tile(maps[d], "Wall") = {}

\* Three floors have been generated.
C9_Witness == Len(maps) = 3 /\ floor = 2 /\ last.tile = "LadderDown"

\* C10: every floor of the walled program has Wall on every border cell and
\* on no other cell, a tile on every cell, and a width and a height within
\* the configured ranges.
C10_Walls ==
    crate = "rpg" =>
        \A d \in 1..Len(maps) :
            /\ maps[d].width \in MIN_WIDTH..MAX_WIDTH
            /\ maps[d].height \in MIN_HEIGHT..MAX_HEIGHT
            /\ DOMAIN maps[d].tiles = Cells(maps[d].width, maps[d].height)
            /\ \A p \in DOMAIN maps[d].tiles :
                  maps[d].tiles[p] = "Wall" <=> IsBorder(maps[d], p)

\* The player walks on a floor of the walled program after floors of two
\* different heights have been generated.
C10_Witness ==
    /\ crate = "rpg"
    /\ last.tile = "Ground"
    /\ \E d \in 1..Len(maps) : maps[d].height # maps[1].height

\* C11: the ladder lookup of a floor transition always finds a position, so
\* the abort that follows a failed lookup never happens: the game has not
\* aborted, every floor below the current one holds the LadderUp a descent
\* looks up, and every floor above it holds the LadderDown an ascent looks up.
C11_LookupSucceeds ==
    /\ ~panicked
    /\ \A d \in 1..Len(maps) :
          /\ d > floor + 1 => find_tile(maps[d], "LadderUp") # {}
          /\ d < floor + 1 => find_tile(maps[d], "LadderDown") # {}

\* Both lookups have been made: the player came up from the third floor to
\* the second, on which they had arrived by a descent.
C11_Witness ==
    /\ crate = "rpg"
    /\ last = [tile |-> "LadderUp", from |-> 2]
    /\ floor = 1
    /\ character_position \in find_tile(Current, "LadderDown")

\* C12: on the first floor no destination of a move holds a LadderUp, so the
\* floor index is never decremented at depth 0; a call that met a LadderUp
\* started from a deeper floor.
C12_NoAscentAtSurface ==
    /\ last.tile = "LadderUp" => last.from > 0
    /\ floor = 0 =>
          /\ find_tile(Current, "LadderUp") = {}
          /\ \A dest \in up_dest \cup down_dest \cup left_dest \cup right_dest :
                tile_at(Current, dest) # "LadderUp"
          /\ tui_tile(Game) # "LadderUp"

\* The player is back on the first floor of the walled program, next to its
\* down ladder, having walked there after an ascent.
C12_Witness ==
    /\ crate = "rpg"
    /\ floor = 0
    /\ Len(maps) = 2
    /\ last = [tile |-> "Ground", from |-> 0]
    /\ \E p \in find_tile(Current, "LadderDown") : Adjacent(p, character_position)

\* The call of to_world_coords has returned.
Converted == crate = "view" /\ world # <<>>

\* The view coordinate of the first cell of a centered map.
LeadingPadding == view.view_width \div 2 - view.map_width \div 2

\* C13: when the map is no longer than the view, equal lengths included,
\* to_world_coords returns view_coordinate + map_length/2 - view_length/2 when
\* that is not negative and None when it is, whatever the player coordinate.
C13_Centered ==
    (Converted /\ view.map_width <= view.view_width) =>
        /\ world[1] = IF view.view_x >= LeadingPadding
                      THEN view.view_x - LeadingPadding
                      ELSE None
        /\ \A player_x \in 0..(view.map_width - 1) :
              to_world_coords(view.view_x, player_x, view.view_width, view.map_width)
                  = {world[1]}

\* Map and view have the same odd length and the player stands right after
\* the middle, where the code takes the branches of a longer map.
C13_Witness ==
    /\ Converted
    /\ view.map_width = view.view_width
    /\ view.view_width % 2 = 1
    /\ view.player_x = view.view_width \div 2 + 1
    /\ world = <<view.view_x>>

\* C14: when the map is longer than the view, to_world_coords returns the
\* view coordinate if the player is within half a view of the start edge,
\* else view_coordinate + map_length - view_length if the player is within
\* half a view of the end edge, else view_coordinate + player - view_length/2;
\* to_world_coords(0, 5, 20, 100) = 0, to_world_coords(19, 95, 20, 100) = 99
\* and to_world_coords(10, 50, 20, 100) = 50.
C14_Scrolling ==
    /\ (Converted /\ view.map_width > view.view_width) =>
          world[1] = IF view.player_x <= view.view_width \div 2
                     THEN view.view_x
                     ELSE IF view.player_x >= view.map_width - view.view_width \div 2
                     THEN view.view_x + view.map_width - view.view_width
                     ELSE view.view_x + view.player_x - view.view_width \div 2
    /\ to_world_coords(0, 5, 20, 100) = {0}
    /\ to_world_coords(19, 95, 20, 100) = {99}
    /\ to_world_coords(10, 50, 20, 100) = {50}

\* The player is away from both edges and the map has scrolled.
C14_Witness ==
    /\ Converted
    /\ view.map_width > view.view_width
    /\ view.player_x > view.view_width \div 2
    /\ view.player_x < view.map_width - view.view_width \div 2
    /\ world = <<view.view_x + view.player_x - view.view_width \div 2>>
    /\ world[1] > view.view_x

\* C15 as stated: when the map fits the view, to_world_coords returns None
\* or a coordinate within the map.
C15_WithinMap ==
    (Converted /\ view.map_width <= view.view_width) =>
        world[1] = None \/ world[1] \in 0..(view.map_width - 1)

\* C15: when the map fits the view, to_world_coords returns None exactly
\* for the view coordinates in the padding before the centered map, a
\* coordinate at or beyond the map length exactly for those in the padding
\* after it, and a coordinate within the map for the others; when the map is
\* longer than the view the coordinate is always within the map.
C15_LeadingPaddingOffMap ==
    Converted =>
        IF view.map_width <= view.view_width
        THEN /\ world[1] = None <=> view.view_x < LeadingPadding
             /\ world[1] >= view.map_width
                  <=> view.view_x >= LeadingPadding + view.map_width
             /\ world[1] \in {None} \cup (0..(view.view_width - 1))
        ELSE world[1] \in 0..(view.map_width - 1)

\* A view coordinate in the padding after the map has been converted.
C15_Witness ==
    /\ Converted
    /\ view.map_width < view.view_width
    /\ view.view_x >= LeadingPadding + view.map_width
    /\ world[1] >= view.map_width

\* The view sizes of the render passes that are checked: shorter than every
\* floor, as long as the longest, and longer than every floor.
ViewWidths == {MIN_WIDTH - 1, MAX_WIDTH, MAX_WIDTH + 2}

ViewHeights == {MIN_HEIGHT - 1, MAX_HEIGHT, MAX_HEIGHT + 1}

\* The world coordinate of a view coordinate, when the call has one outcome.
world_of(view_x, player_x, view_width, map_width) ==
    CHOOSE w \in to_world_coords(view_x, player_x, view_width, map_width) : TRUE

\* C16: in a render pass of the walled program a view cell mapped to the
\* player's position shows the character, whatever tile the floor stores
\* there; a cell mapped to another position shows the tile stored there, or
\* blank when none is; a cell mapped off-map on either axis shows blank; and
\* no floor stores the character.
C16_Overlay ==
    /\ \A d \in 1..Len(maps) : find_tile(maps[d], "Character") = {}
    /\ crate = "rpg" =>
          \A view_width \in ViewWidths, view_height \in ViewHeights :
             LET rows == map_as_strings(Game, view_width, view_height)
             IN \A vx \in 0..(view_width - 1), vy \in 0..(view_height - 1) :
                   LET mx == world_of(vx, character_position.x, view_width, Current.width)
                       my == world_of(vy, character_position.y, view_height, Current.height)
                   IN rows[vy + 1][vx + 1] =
                         {IF mx = None \/ my = None
                          THEN 32
                          ELSE IF mx = character_position.x /\ my = character_position.y
                          THEN 64
                          ELSE IF Position(mx, my) \in DOMAIN Current.tiles
                          THEN to_string(Current.tiles[Position(mx, my)])
                          ELSE 32}

\* The player has just come down a ladder and stands on the up ladder of the
\* floor, which a render pass shows as the character.
C16_Witness ==
    /\ crate = "rpg"
    /\ last.tile = "LadderDown"
    /\ Current.tiles[character_position] = "LadderUp"
    /\ \E view_width \in ViewWidths, view_height \in ViewHeights :
          \E vx \in 0..(view_width - 1), vy \in 0..(view_height - 1) :
             map_as_strings(Game, view_width, view_height)[vy + 1][vx + 1] = {64}

\* C17: the number of floors is always one more than the deepest depth the
\* player has been on and more than the current depth; no move lowers it, and
\* a move raises it, by one, exactly when it is a descent to a depth below
\* every depth visited so far.
C17_FloorsLazy ==
    /\ [](Len(maps) = deepest + 1 /\ floor < Len(maps))
    /\ [][/\ Len(maps') >= Len(maps)
          /\ (Len(maps') # Len(maps)) <=>
                (last'.tile = "LadderDown" /\ floor' = floor + 1 /\ floor' > deepest)
          /\ (Len(maps') # Len(maps)) => (Len(maps') = Len(maps) + 1)]_vars

\* The player has come down to a depth visited before, the walled program
\* holding three floors, and no floor was added.
C17_Witness ==
    /\ crate = "rpg"
    /\ last = [tile |-> "LadderDown", from |-> 0]
    /\ floor = 1
    /\ deepest = 2
    /\ Len(maps) = 3

\* C18: whenever the retry loop of random_unocuppied_position runs, for the
\* down ladder, the up ladder or the player's first position, the floor has
\* an unoccupied cell, and under fair draws the generation of the floor
\* comes to its end.
C18_GenerationTerminates ==
    /\ [](gen.pc # "done" => random_unocuppied_position(gen.map) # {})
    /\ <>(gen.pc = "done")

\* A floor below the first has got both ladders after a draw was rejected.
C18_Witness ==
    /\ crate = "gen"
    /\ gen.pc = "done"
    /\ gen.depth = 1
    /\ gen.retried
    /\ gen.map \in Map_new(1)

\* C19: a move of the walled program whose destination holds Ground or no
\* tile puts the player on that destination, the cell next to the old
\* position in the direction of the move, and changes neither the depth nor
\* the floors.
C19_PlainMove ==
    [][(crate = "rpg" /\ last'.tile \in {"Ground", "Empty"}) =>
          /\ UNCHANGED <<floor, maps, panicked>>
          /\ Adjacent(character_position', character_position)
          /\ tile_at(Current, character_position') = last'.tile
          /\ move_up => character_position' \in up_dest
          /\ move_down => character_position' \in down_dest
          /\ move_left => character_position' \in left_dest
          /\ move_right => character_position' \in right_dest]_vars

\* A fresh game of the walled program in which the player has walked one
\* cell on Ground.
C19_Witness ==
    /\ crate = "rpg"
    /\ last = [tile |-> "Ground", from |-> 0]
    /\ Len(maps) = 1
    /\ tile_at(Current, character_position) = "Ground"

\* C20: in the walled program the player always stands on a cell with
\* 1 <= x <= width - 2 and 1 <= y <= height - 2 of the current floor, so the
\* u16 arithmetic of the four moves never overflows and every destination is
\* a cell of the floor.
C20_Interior ==
    crate = "rpg" =>
        /\ character_position.x \in 1..(Current.width - 2)
        /\ character_position.y \in 1..(Current.height - 2)
        /\ up_dest = {Position(character_position.x, character_position.y - 1)}
        /\ left_dest = {Position(character_position.x - 1, character_position.y)}
        /\ up_dest \cup down_dest \cup left_dest \cup right_dest
              \subseteq Cells(Current.width, Current.height)

\* The player has come up a ladder and stands in the far interior corner of
\* the floor.
C20_Witness ==
    /\ crate = "rpg"
    /\ last.tile = "LadderUp"
    /\ floor = 1
    /\ character_position = Position(Current.width - 2, Current.height - 2)

\* The view coordinates that to_world_coords maps to the player's coordinate.
PlayerCells(player_x, view_width, map_width) ==
    {view_x \in 0..(view_width - 1) :
        to_world_coords(view_x, player_x, view_width, map_width) = {player_x}}

\* C21: for every view length and map length of at least 1 and every player
\* coordinate within the map, exactly one view coordinate within the view is
\* mapped by to_world_coords to the player's coordinate; the call made
\* returns the player's coordinate exactly when it is made for that one.
C21_PlayerOnce ==
    Converted =>
        /\ Cardinality(PlayerCells(view.player_x, view.view_width, view.map_width)) = 1
        /\ world[1] = view.player_x
              <=> view.view_x \in PlayerCells(view.player_x, view.view_width, view.map_width)

\* The map is longer than the view, the player is away from both edges, and
\* the call for the middle of the view has returned the player's coordinate.
C21_Witness ==
    /\ Converted
    /\ view.map_width > view.view_width
    /\ view.player_x > view.view_width \div 2
    /\ view.player_x < view.map_width - view.view_width \div 2
    /\ view.view_x = view.view_width \div 2
    /\ world = <<view.player_x>>

\* The consequence of C21 for a render pass, in every state the walled
\* program reaches: map_as_strings shows the character in exactly one cell,
\* for the view sizes of C16 and for views one cell wide or high.
OneCharacterCell ==
    crate = "rpg" =>
        \A view_width \in ViewWidths \cup {1}, view_height \in ViewHeights \cup {1} :
           LET rows == map_as_strings(Game, view_width, view_height)
           IN Cardinality({cell \in (1..view_width) \X (1..view_height) :
                             rows[cell[2]][cell[1]] = {to_string("Character")}}) = 1

\* The call of to_world_coords for the same view coordinate after the player
\* has moved one cell towards the end of the map.
one_cell_on ==
    to_world_coords(view.view_x, view.player_x + 1, view.view_width, view.map_width)

\* C22: when the map is at least as long as the view and the player's
\* coordinate grows by one within the map, the coordinate to_world_coords
\* returns for a view coordinate stays the same or grows by one, also where
\* the player passes from the start-pinned to the centered regime and from
\* the centered to the end-pinned one.
C22_Continuous ==
    (/\ Converted
     /\ view.map_width >= view.view_width
     /\ view.player_x + 1 < view.map_width) =>
        \A w \in one_cell_on : w - world[1] \in {0, 1}

\* The player steps from the centered regime into the end-pinned one and,
\* the view length being odd, the map does not scroll.
C22_Witness ==
    /\ Converted
    /\ view.map_width > view.view_width
    /\ view.player_x > view.view_width \div 2
    /\ view.player_x + 1 = view.map_width - view.view_width \div 2
    /\ world = <<view.view_x + view.player_x - view.view_width \div 2>>
    /\ one_cell_on = {world[1]}

====
